---- MODULE Spec2Model ----
(***************************************************************************)
(* Model of DesktopReleaseBuilder (src/src/desktop_release.js): the        *)
(* start() pipeline, the per-platform builds buildLocal / buildWin, the    *)
(* artifact mirror (pullArtifacts / pushArtifacts) and the Debian          *)
(* repository database (pullDebDatabase / addDeb / pushDebDatabase).       *)
(*                                                                         *)
(* One DesktopReleaseBuilder object is shared by every start() invocation: *)
(* `building`, pubDir, debDir and the per-type working directories are     *)
(* object- or process-wide; everything else is local to one invocation.    *)
(* Every await of the source is a step that either succeeds or fails;      *)
(* consecutive awaits that touch nothing another invocation can see are    *)
(* taken in one step, which logs each of them.                             *)
(***************************************************************************)
EXTENDS Naturals, Integers, Sequences, FiniteSets, TLC

\* Number of start() invocations made on the one builder object.
MaxStarts == 2

Runs == 1..MaxStarts

\* const TYPES (line 32)
TYPES == <<"win64", "mac", "linux">>

\* The types build() is written for: besides TYPES, win32 (lines 365, 391-392).
BuildTypes == TYPES \o <<"win32">>

\* Version in package.json of the branch being built, and the version an
\* earlier release published.
NewVer == "1.6.0"
OldVer == "1.5.0"

VARIABLES
    building,       \* this.building
    pc,             \* pc[r]: the await invocation r is suspended at
    ti,             \* ti[r]: index in BuildTypes of the loop variable `type`
    pending,        \* pending[r]: an exception is in flight through buildWin's finally
    matched,        \* matched[r]: files of the for-of loop still to be handled
    targets,        \* targets[r]: targets of addDeb's loop still to be handled
    outcome,        \* outcome[r]: how the promise of start() settled
    log,            \* log[r]: the external calls invocation r made, in order
    pubDir,         \* local working copy of the published tree (this.pubDir)
    remote,         \* rsyncRoot + 'packages.riot.im'
    debDir,         \* local reprepro database (this.debDir)
    remoteDeb,      \* rsyncRoot + 'debian'
    workdir,        \* workdir[type]: builds/element-desktop-<type>-<branch>
    builder,        \* builder[r]: the WindowsBuilder of invocation r (`builder`, line 358)
    ci,             \* ci[r]: index of the artifact class being extracted
    remoteAtStart,  \* history: remote / remoteDeb when r was invoked
    interfered,     \* history: another invocation wrote remote state / pubDir during r
    pulled,         \* history: the tree r's pullArtifacts brought
    produced,       \* history: the files r wrote into pubDir, in order
    remoteAfterPush,\* history: remote right after r's pushArtifacts
    ingested        \* history: the reprepro includedeb calls of r: <<deb, target, ok>>

vars == <<building, pc, ti, pending, matched, targets, outcome, log, pubDir, remote,
          debDir, remoteDeb, workdir, builder, ci, remoteAtStart, interfered, pulled,
          produced, remoteAfterPush, ingested>>

ctl == <<building, pc, ti, pending, outcome>>

----------------------------------------------------------------------------
\* File names are sequences of characters, so that the regular expressions
\* of the source can be applied to them.

dmgNew   == <<"n", ".", "d", "m", "g">>
dmgOld   == <<"o", ".", "d", "m", "g">>
zipNew   == <<"n", "-", "m", "a", "c", ".", "z", "i", "p">>
exeNew   == <<"n", ".", "e", "x", "e">>
nupkgNew == <<"n", ".", "n", "u", "p", "k", "g">>
nupkgOld == <<"o", ".", "n", "u", "p", "k", "g">>
RELEASES == <<"R", "E", "L", "E", "A", "S", "E", "S">>
debNew   == <<"n", ".", "d", "e", "b">>
debTwo   == <<"m", ".", "d", "e", "b">>
txtFile  == <<"b", ".", "t", "x", "t">>
latest   == <<"l", "a", "t", "e", "s", "t">>

\* "?" in a pattern stands for the regular expression's `.` (any character).
AnyChar == "?"

EndsWith(f, pat) ==
    /\ Len(f) >= Len(pat)
    /\ \A i \in 1..Len(pat) :
          \/ pat[i] = AnyChar
          \/ f[Len(f) - Len(pat) + i] = pat[i]

ReDmg(f)      == EndsWith(f, <<".", "d", "m", "g">>)                        \* /\.dmg$/
ReMacZip(f)   == EndsWith(f, <<"-", "m", "a", "c", AnyChar, "z", "i", "p">>) \* /-mac.zip$/
ReExe(f)      == EndsWith(f, <<".", "e", "x", "e">>)                        \* /\.exe$/
ReNupkg(f)    == EndsWith(f, <<".", "n", "u", "p", "k", "g">>)              \* /\.nupkg$/
ReReleases(f) == f = RELEASES                                                \* /^RELEASES$/
ReDeb(f)      == EndsWith(f, <<".", "d", "e", "b">>)                        \* /\.deb$/

\* exp.test(f) for the regular expressions of the source, by name.
Matches(exp, f) ==
    CASE exp = "dmg"      -> ReDmg(f)
      [] exp = "maczip"   -> ReMacZip(f)
      [] exp = "exe"      -> ReExe(f)
      [] exp = "nupkg"    -> ReNupkg(f)
      [] exp = "releases" -> ReReleases(f)
      [] OTHER            -> ReDeb(f)

\* Variant of getMatchingFilesInDir: the loop ends at the first match.
getFirstMatchingFileInDir(listing, exp) ==
    LET m == SelectSeq(listing, LAMBDA f : Matches(exp, f))
    IN  IF m = <<>> THEN m ELSE <<Head(m)>>

\* getMatchingFilesInDir: the entries of the listing that match, in listing
\* order; the caller throws when the result is empty.
getMatchingFilesInDir(listing, exp) ==
    SelectSeq(listing, LAMBDA f : Matches(exp, f))

\* Variant of WriteFile: a copy that does not replace a file that exists.
WriteFileNoReplace(tree, dir, name, content) ==
    IF \E f \in tree : f[1] = dir /\ f[2] = name
    THEN tree
    ELSE tree \cup {<<dir, name, content>>}

\* A tree is a set of files <<dir, name, content>>, one per (dir, name).
WriteFile(tree, dir, name, content) ==
    {f \in tree : ~(f[1] = dir /\ f[2] = name)} \cup {<<dir, name, content>>}

EmptyTree == {}
\* What an earlier release of OldVer left on the mirror.
OldTree ==
    { <<"install/macos", dmgOld, OldVer>>,
      <<"update/macos", latest, OldVer>>,
      <<"update/win32/x64", nupkgOld, OldVer>>,
      <<"update/win32/x64", RELEASES, OldVer>> }

\* The listings of <repoDir>/dist a build can leave: complete, or lacking one
\* artifact class.
DistChoices(type) ==
    CASE type = "mac"   -> { <<dmgNew, txtFile, zipNew>>, <<dmgNew, txtFile>> }
      [] type \in {"win64", "win32"} ->
                           { <<RELEASES, exeNew, nupkgNew>>, <<exeNew, nupkgNew>> }
      [] OTHER          -> { <<debNew, txtFile>>, <<txtFile>> }

\* Lines of text are sequences of characters too.
Codename   == <<"C", "o", "d", "e", "n", "a", "m", "e">>
ColonSpace == <<":", " ">>
sid        == <<"s", "i", "d">>
dev        == <<"d", "e", "v">>
originLine == <<"O", "r", "i", "g", "i", "n">> \o ColonSpace \o <<"r", "i", "o", "t">>
\* What `${target}` gives when split(': ')[1] is undefined.
undefinedStr == <<"u", "n", "d", "e", "f", "i", "n", "e", "d">>

\* conf/distributions of the reprepro directory, as the lines of the file.
ConfDistributions ==
    << originLine, Codename \o ColonSpace \o sid, <<>>,
       originLine, Codename \o ColonSpace \o dev >>

\* String.prototype.startsWith
startsWith(l, prefix) ==
    /\ Len(l) >= Len(prefix)
    /\ SubSeq(l, 1, Len(prefix)) = prefix

\* String.prototype.indexOf, counting from 1; 0 when sep does not occur.
indexOf(l, sep) ==
    LET at == {i \in 1..Len(l) : i + Len(sep) - 1 <= Len(l)
                                 /\ SubSeq(l, i, i + Len(sep) - 1) = sep}
    IN  IF at = {} THEN 0 ELSE CHOOSE i \in at : \A j \in at : i <= j

\* l.split(sep)[1]: what lies between the first separator and the next one
\* (or the end of the line); undefined when the line has no separator.
splitSecond(l, sep) ==
    LET i == indexOf(l, sep)
        rest == SubSeq(l, i + Len(sep), Len(l))
        j == indexOf(rest, sep)
    IN  IF i = 0 THEN undefinedStr
        ELSE IF j = 0 THEN rest ELSE SubSeq(rest, 1, j - 1)

\* Variant of getRepoTargets: the first Codename line only.
getFirstRepoTarget(conf) ==
    LET lines == SelectSeq(conf, LAMBDA l : startsWith(l, Codename))
    IN  [i \in 1..(IF Len(lines) > 0 THEN 1 ELSE 0) |-> splitSecond(lines[i], ColonSpace)]

\* getRepoTargets (lines 58-67): of the lines that start with 'Codename',
\* what follows ': ', in file order.
getRepoTargets(conf) ==
    LET lines == SelectSeq(conf, LAMBDA l : startsWith(l, Codename))
    IN  [i \in 1..Len(lines) |-> splitSecond(lines[i], ColonSpace)]

\* A reprepro directory: conf/distributions and the packages its database
\* holds, <<target, deb, version>>.
EmptyRepo == [conf |-> ConfDistributions, db |-> {}]

----------------------------------------------------------------------------
\* package.json and electron-builder.json.  A JSON object is a function from
\* its keys; a key that is absent is not in its domain.

EmptyObject == [k \in {} |-> ""]

Get(obj, k) == IF k \in DOMAIN obj THEN obj[k] ELSE "undefined"

\* Object.assign(target, source): the own keys of source are set on target,
\* each with the whole value source has for it.
ObjectAssign(target, source) ==
    [k \in DOMAIN target \cup DOMAIN source |->
        IF k \in DOMAIN source THEN source[k] ELSE target[k]]

\* Variant of productNameFor: the manifest's productName for every type.
productNameOfManifest(type, pkg) == Get(pkg, "productName")

\* Lines 217-222: the deb build is always called 'Element'.
productNameFor(type, pkg) ==
    IF type = "linux" THEN "Element" ELSE Get(pkg, "productName")

\* JSON.stringify leaves out a key whose value is undefined.
extraMetadataOf(productName) ==
    IF productName = "undefined" THEN EmptyObject ELSE [productName |-> productName]

\* writeElectronBuilderConfigFile (lines 210-234): what is written to
\* electron-builder.json.
writeElectronBuilderConfigFile(type, pkg) ==
    ObjectAssign(pkg.build,
                 [extraMetadata |-> extraMetadataOf(productNameFor(type, pkg)),
                  deb |-> [fpm |-> <<"--deb-custom-control=debcontrol">>]])

\* package.json of the branch being built.
Manifest ==
    [productName |-> "Riot",
     build |-> [appId |-> "im.riot.app",
                deb |-> [fpm |-> <<"--verbose">>]]]

\* The working directory of a build: whether it exists, package.json,
\* electron-builder.json (EmptyObject until written) and the listing of dist.
NoDir == [exists |-> FALSE, pkg |-> EmptyObject, cfg |-> EmptyObject, dist |-> <<>>]

ClonedDir(pkg) == [exists |-> TRUE, pkg |-> pkg, cfg |-> EmptyObject, dist |-> <<>>]

\* Variant of rimraf: what is in the directory is removed, the directory
\* stays.
rimrafContents(dirs, type) ==
    [dirs EXCEPT ![type].cfg = EmptyObject, ![type].dist = <<>>]

\* rimraf(repoDir) (lines 247-251, 309-314, 339-343, 419-424).
rimraf(dirs, type) == [dirs EXCEPT ![type] = NoDir]

----------------------------------------------------------------------------
\* WindowsBuilder (windows_builder.js): start() brings the VM up,
\* appendScript() adds a line to the script and runs nothing, runScript()
\* runs the accumulated script on the VM, stop() shuts the VM down.

NewWindowsBuilder == [up |-> FALSE, script |-> <<>>, ran |-> <<>>]

builderStart(b) == [b EXCEPT !.up = TRUE]

appendScript(b, cmd) == [b EXCEPT !.script = Append(@, cmd)]

runScript(b) == [b EXCEPT !.ran = @ \o b.script]

builderStop(b) == [b EXCEPT !.up = FALSE]

\* The lines buildWin appends (lines 369-385), in program order.
WinScript(type) ==
    << "rd repoDir", "git clone", "cd repoDir", "copy electron-builder.json",
       "call yarn install", "call yarn run hak check", "call yarn run build:native",
       "call yarn run fetch",
       IF type = "win64" THEN "call yarn build --x64" ELSE "call yarn build --ia32",
       "xcopy dist", "cd ..", "rd repoDir" >>

RECURSIVE appendAll(_, _)
appendAll(b, cmds) ==
    IF cmds = <<>> THEN b ELSE appendAll(appendScript(b, Head(cmds)), Tail(cmds))

----------------------------------------------------------------------------
\* Control flow of start() and of the build methods.  Each operator below
\* sets building, pc, ti, pending and outcome, and nothing else.

Goto(r, l) ==
    /\ pc' = [pc EXCEPT ![r] = l]
    /\ UNCHANGED <<building, ti, pending, outcome>>

\* start(), up to its first await: `this.building = false` and the call of
\* getSecret.
ResetGuard(r) ==
    /\ building' = FALSE
    /\ pc' = [pc EXCEPT ![r] = "getSecret"]
    /\ UNCHANGED <<ti, pending, outcome>>

\* Variant of SecretMissing: getSecret awaited inside the try block, so that
\* the finally block clears the guard.
SecretInsideTry(r) ==
    /\ building' = FALSE
    /\ pc' = [pc EXCEPT ![r] = "done"]
    /\ outcome' = [outcome EXCEPT ![r] = "threw"]
    /\ UNCHANGED <<ti, pending>>

\* getSecret rejects: the exception leaves start() before the try block.
SecretMissing(r) ==
    /\ pc' = [pc EXCEPT ![r] = "done"]
    /\ outcome' = [outcome EXCEPT ![r] = "threw"]
    /\ UNCHANGED <<building, ti, pending>>

\* getSecret resolves: `if (this.building) return`, `if (toBuild.length === 0)
\* return`, then `this.building = true` and the call of pullArtifacts.
AfterSecret(r) ==
    IF building \/ Len(TYPES) = 0
    THEN /\ pc' = [pc EXCEPT ![r] = "done"]
         /\ outcome' = [outcome EXCEPT ![r] = "returned"]
         /\ UNCHANGED <<building, ti, pending>>
    ELSE /\ building' = TRUE
         /\ pc' = [pc EXCEPT ![r] = "pull"]
         /\ ti' = [ti EXCEPT ![r] = 0]
         /\ UNCHANGED <<pending, outcome>>

\* An exception of pullArtifacts or pushArtifacts passes the finally block
\* and rejects the promise of start().
StartThrows(r) ==
    /\ building' = FALSE
    /\ pc' = [pc EXCEPT ![r] = "done"]
    /\ outcome' = [outcome EXCEPT ![r] = "threw"]
    /\ UNCHANGED <<ti, pending>>

\* pushArtifacts resolved: start() runs its finally block and returns.
StartReturns(r) ==
    /\ building' = FALSE
    /\ pc' = [pc EXCEPT ![r] = "done"]
    /\ outcome' = [outcome EXCEPT ![r] = "returned"]
    /\ UNCHANGED <<ti, pending>>

\* Variant of CatchBuildFailure: the catch logs and the loop goes on.
CatchAndContinue(r) ==
    /\ pending' = [pending EXCEPT ![r] = FALSE]
    /\ IF ti[r] < Len(TYPES)
       THEN /\ ti' = [ti EXCEPT ![r] = ti[r] + 1]
            /\ pc' = [pc EXCEPT ![r] = "prep"]
       ELSE /\ pc' = [pc EXCEPT ![r] = "push"]
            /\ UNCHANGED ti
    /\ UNCHANGED <<building, outcome>>

\* Variant of CatchBuildFailure: the catch logs and rethrows.
CatchRethrows(r) ==
    /\ building' = FALSE
    /\ pc' = [pc EXCEPT ![r] = "done"]
    /\ outcome' = [outcome EXCEPT ![r] = "threw"]
    /\ pending' = [pending EXCEPT ![r] = FALSE]
    /\ UNCHANGED ti

\* The catch of the platform loop: log, `return`, then the finally block.
CatchBuildFailure(r) ==
    /\ building' = FALSE
    /\ pc' = [pc EXCEPT ![r] = "done"]
    /\ outcome' = [outcome EXCEPT ![r] = "returned"]
    /\ pending' = [pending EXCEPT ![r] = FALSE]
    /\ UNCHANGED ti

\* Variant of LoopNext: pushArtifacts inside the loop body, after the first
\* type.
PushAfterFirst(r) ==
    IF ti[r] < 1
    THEN /\ ti' = [ti EXCEPT ![r] = ti[r] + 1]
         /\ pc' = [pc EXCEPT ![r] = "prep"]
         /\ UNCHANGED <<building, pending, outcome>>
    ELSE /\ pc' = [pc EXCEPT ![r] = "push"]
         /\ UNCHANGED <<building, ti, pending, outcome>>

\* The for loop over toBuild: the next type, or pushArtifacts after the last.
LoopNext(r) ==
    IF ti[r] < Len(TYPES)
    THEN /\ ti' = [ti EXCEPT ![r] = ti[r] + 1]
         /\ pc' = [pc EXCEPT ![r] = "prep"]
         /\ UNCHANGED <<building, pending, outcome>>
    ELSE /\ pc' = [pc EXCEPT ![r] = "push"]
         /\ UNCHANGED <<building, ti, pending, outcome>>

\* Variant of TryThrows: builder.stop() at the end of the try block instead
\* of in a finally block.
SkipFinally(r) ==
    /\ building' = FALSE
    /\ pc' = [pc EXCEPT ![r] = "done"]
    /\ outcome' = [outcome EXCEPT ![r] = "returned"]
    /\ pending' = [pending EXCEPT ![r] = FALSE]
    /\ UNCHANGED ti

\* An exception inside buildWin's try block: the finally block runs
\* builder.stop() before the exception goes on.
TryThrows(r) ==
    /\ pc' = [pc EXCEPT ![r] = "stop"]
    /\ pending' = [pending EXCEPT ![r] = TRUE]
    /\ UNCHANGED <<building, ti, outcome>>

\* The try block of buildWin ended normally: the finally block runs
\* builder.stop().
TryEnds(r) ==
    /\ pc' = [pc EXCEPT ![r] = "stop"]
    /\ pending' = [pending EXCEPT ![r] = FALSE]
    /\ UNCHANGED <<building, ti, outcome>>

\* builder.stop() settled: the exception in flight (or its own) goes on to
\* the caller, otherwise buildWin removes the build directory.
StopDone(r, ok) ==
    IF pending[r] \/ ~ok
    THEN CatchBuildFailure(r)
    ELSE Goto(r, "rimrafEnd")

Type(r) == BuildTypes[ti[r]]

\* build(type): types starting with 'win' go to buildWin.
IsWin(type) == type \in {"win64", "win32"}

\* Variant of Throw: the failed call is made again.
RetryStep(r) ==
    /\ UNCHANGED <<building, pc, ti, pending, outcome>>

\* Variant of Throw: a failed reprepro call is passed over, and the database
\* is pushed.
ThrowUnlessIngesting(r) ==
    IF pc[r] = "includedeb"
    THEN Goto(r, "pushDeb")
    ELSE IF IsWin(Type(r)) /\ pc[r] \in {"runScript", "mkdirs", "match", "copy"}
         THEN TryThrows(r)
         ELSE CatchBuildFailure(r)

\* Variant of Throw: a failed runScript is passed over, and the extraction
\* is made.
ThrowPastRunScript(r) ==
    IF pc[r] = "runScript"
    THEN Goto(r, "mkdirs")
    ELSE IF IsWin(Type(r)) /\ pc[r] \in {"mkdirs", "match", "copy"}
         THEN TryThrows(r)
         ELSE CatchBuildFailure(r)

\* An exception in a build method: inside buildWin's try block it passes the
\* finally block first.
Throw(r) ==
    IF IsWin(Type(r)) /\ pc[r] \in {"runScript", "mkdirs", "match", "copy"}
    THEN TryThrows(r)
    ELSE CatchBuildFailure(r)

----------------------------------------------------------------------------
\* The log: <<type, call, argument, ok>> for each external call made.

Entry(t, e, a, ok) == <<t, e, a, ok>>

\* Calls evs made one after the other; k = 0: all succeed, otherwise the
\* k-th fails and the later ones are not made.
Entries(t, evs, k) ==
    [i \in 1..(IF k = 0 THEN Len(evs) ELSE k) |-> Entry(t, evs[i], "-", i # k)]

Logged(r, es) == log' = [log EXCEPT ![r] = log[r] \o es]

Invoked(q) == pc[q] # "idle"
HasPulled(q) == pc[q] \notin {"idle", "getSecret", "pull", "done"}

\* History: invocation r wrote the remote tree, the remote Debian database,
\* or the shared local tree, while q was under way (or, for remote state,
\* after q ended).
Note(r, tag) ==
    interfered' = [q \in Runs |->
        IF q # r /\ (IF tag = "local" THEN HasPulled(q) ELSE Invoked(q))
        THEN interfered[q] \cup {tag}
        ELSE interfered[q]]

----------------------------------------------------------------------------
Init ==
    /\ building = FALSE
    /\ pc = [r \in Runs |-> "idle"]
    /\ ti = [r \in Runs |-> 0]
    /\ ci = [r \in Runs |-> 0]
    /\ pending = [r \in Runs |-> FALSE]
    /\ matched = [r \in Runs |-> <<>>]
    /\ targets = [r \in Runs |-> <<>>]
    /\ outcome = [r \in Runs |-> "pending"]
    /\ log = [r \in Runs |-> <<>>]
    /\ pubDir = EmptyTree
    /\ remote \in {EmptyTree, OldTree}
    /\ debDir = EmptyRepo
    /\ remoteDeb = EmptyRepo
    /\ workdir = [t \in {BuildTypes[i] : i \in 1..Len(BuildTypes)} |-> NoDir]
    /\ builder = [r \in Runs |-> NewWindowsBuilder]
    /\ remoteAtStart = [r \in Runs |-> [tree |-> {}, deb |-> EmptyRepo]]
    /\ interfered = [r \in Runs |-> {}]
    /\ pulled = [r \in Runs |-> {}]
    /\ produced = [r \in Runs |-> <<>>]
    /\ remoteAfterPush = [r \in Runs |-> {}]
    /\ ingested = [r \in Runs |-> <<>>]

\* start() is called (lines 164-174).
Start(r) ==
    /\ pc[r] = "idle"
    /\ ResetGuard(r)
    /\ remoteAtStart' = [remoteAtStart EXCEPT ![r] = [tree |-> remote, deb |-> remoteDeb]]
    /\ UNCHANGED <<ingested, matched, targets, log, pubDir, remote, debDir, remoteDeb, workdir,
                   builder, ci, interfered, pulled, produced, remoteAfterPush>>

\* getSecret settles (lines 174-188).
GetSecret(r) ==
    /\ pc[r] = "getSecret"
    /\ \/ /\ Logged(r, <<Entry("-", "getSecret", "-", TRUE)>>)
          /\ AfterSecret(r)
       \/ /\ Logged(r, <<Entry("-", "getSecret", "-", FALSE)>>)
          /\ SecretMissing(r)
    /\ UNCHANGED <<ingested, matched, targets, pubDir, remote, debDir, remoteDeb, workdir,
                   builder, ci, remoteAtStart, interfered, pulled, produced,
                   remoteAfterPush>>

\* pullArtifacts settles (lines 188-190): rsync --delete makes pubDir equal
\* to the remote tree.
Pull(r) ==
    /\ pc[r] = "pull"
    /\ \/ /\ Logged(r, <<Entry("-", "pull", "-", TRUE)>>)
          /\ pubDir' = remote
          /\ pulled' = [pulled EXCEPT ![r] = remote]
          /\ Note(r, "local")
          /\ LoopNext(r)
       \/ /\ Logged(r, <<Entry("-", "pull", "-", FALSE)>>)
          /\ StartThrows(r)
          /\ UNCHANGED <<pubDir, pulled, interfered>>
    /\ UNCHANGED <<ingested, matched, targets, remote, debDir, remoteDeb, workdir, builder, ci,
                   remoteAtStart, produced, remoteAfterPush>>

\* pushArtifacts settles (lines 203-207): rsync --delete makes the remote
\* tree equal to pubDir; a failed transfer leaves the remote tree as it was.
Push(r) ==
    /\ pc[r] = "push"
    /\ \/ /\ Logged(r, <<Entry("-", "push", "-", TRUE)>>)
          /\ remote' = pubDir
          /\ remoteAfterPush' = [remoteAfterPush EXCEPT ![r] = pubDir]
          /\ Note(r, "tree")
          /\ StartReturns(r)
       \/ /\ Logged(r, <<Entry("-", "push", "-", FALSE)>>)
          /\ StartThrows(r)
          /\ UNCHANGED <<remote, remoteAfterPush, interfered>>
    /\ UNCHANGED <<ingested, matched, targets, pubDir, debDir, remoteDeb, workdir, builder, ci,
                   remoteAtStart, pulled, produced>>

----------------------------------------------------------------------------
\* The build methods.

\* Variant of Classes: archDir is 'x64' for every Windows type.
ClassesOneArch(type) ==
    CASE type = "mac"   -> << [exp |-> "dmg", dir |-> "install/macos"],
                              [exp |-> "maczip", dir |-> "update/macos"] >>
      [] type \in {"win64", "win32"} ->
                           << [exp |-> "exe", dir |-> "install/win32/x64"],
                              [exp |-> "nupkg", dir |-> "update/win32/x64"],
                              [exp |-> "releases", dir |-> "update/win32/x64"] >>
      [] OTHER          -> << [exp |-> "deb", dir |-> "-"] >>

\* The artifact classes a build copies out of dist, in program order:
\* the regular expression and the directory under appPubDir.
Classes(type) ==
    CASE type = "mac"   -> << [exp |-> "dmg", dir |-> "install/macos"],
                              [exp |-> "maczip", dir |-> "update/macos"] >>
      [] type = "win64" -> << [exp |-> "exe", dir |-> "install/win32/x64"],
                              [exp |-> "nupkg", dir |-> "update/win32/x64"],
                              [exp |-> "releases", dir |-> "update/win32/x64"] >>
      [] type = "win32" -> << [exp |-> "exe", dir |-> "install/win32/ia32"],
                              [exp |-> "nupkg", dir |-> "update/win32/ia32"],
                              [exp |-> "releases", dir |-> "update/win32/ia32"] >>
      [] OTHER          -> << [exp |-> "deb", dir |-> "-"] >>

Class(r) == Classes(Type(r))[ci[r]]

\* mkdir 'builds' and rimraf of the build directory (lines 245-251, 336-343).
Prep(r) ==
    /\ pc[r] = "prep"
    /\ \E k \in 0..2 :
          /\ Logged(r, Entries(Type(r), <<"mkdirBuilds", "rimraf">>, k))
          /\ IF k = 0
             THEN /\ workdir' = rimraf(workdir, Type(r))
                  /\ Goto(r, "clone")
             ELSE /\ UNCHANGED workdir
                  /\ Throw(r)
    /\ UNCHANGED <<ingested, matched, targets, pubDir, remote, debDir, remoteDeb, builder, ci,
                   remoteAtStart, interfered, pulled, produced, remoteAfterPush>>

\* repo.clone (lines 255, 351): git refuses a directory that exists.
Clone(r) ==
    /\ pc[r] = "clone"
    /\ \/ /\ ~workdir[Type(r)].exists
          /\ Logged(r, <<Entry(Type(r), "clone", "-", TRUE)>>)
          /\ workdir' = [workdir EXCEPT ![Type(r)] = ClonedDir(Manifest)]
          /\ Goto(r, "cfg")
       \/ /\ Logged(r, <<Entry(Type(r), "clone", "-", FALSE)>>)
          /\ UNCHANGED workdir
          /\ Throw(r)
    /\ UNCHANGED <<ingested, matched, targets, pubDir, remote, debDir, remoteDeb, builder, ci,
                   remoteAtStart, interfered, pulled, produced, remoteAfterPush>>

\* The calls between the clone and the build: package.json is read,
\* electron-builder.json is written and, for linux, debcontrol.
CfgCalls(type) ==
    <<"readVersion", "writeCfg">> \o
        (IF type = "linux" THEN <<"setDebVersion">> ELSE <<>>)

\* Lines 258-267 and 354-358: electron-builder.json is on disk once
\* writeElectronBuilderConfigFile succeeded.
Cfg(r) ==
    /\ pc[r] = "cfg"
    /\ \E k \in 0..Len(CfgCalls(Type(r))) :
          /\ k \in {0, 3} => workdir[Type(r)].exists
          /\ Logged(r, Entries(Type(r), CfgCalls(Type(r)), k))
          /\ IF k \in {0, 3}
             THEN workdir' = [workdir EXCEPT ![Type(r)].cfg =
                     writeElectronBuilderConfigFile(Type(r), workdir[Type(r)].pkg)]
             ELSE UNCHANGED workdir
          /\ IF k = 0
             THEN /\ builder' = [builder EXCEPT ![r] =
                                    IF IsWin(Type(r)) THEN NewWindowsBuilder ELSE @]
                  /\ Goto(r, IF IsWin(Type(r)) THEN "vmStart" ELSE "cmds")
             ELSE /\ UNCHANGED builder
                  /\ Throw(r)
    /\ UNCHANGED <<ingested, matched, targets, pubDir, remote, debDir, remoteDeb,
                   ci, remoteAtStart, interfered, pulled, produced, remoteAfterPush>>

\* buildWithRunner: the five runner.run calls.
RunnerCalls ==
    <<"yarn install", "yarn run hak check", "yarn run build:native",
      "yarn run fetch", "yarn build">>

\* Lines 279 and 325-333; the last command leaves the build output in dist.
Cmds(r) ==
    /\ pc[r] = "cmds"
    /\ \E k \in 0..Len(RunnerCalls) :
          /\ k = 0 => workdir[Type(r)].exists
          /\ Logged(r, Entries(Type(r), RunnerCalls, k))
          /\ IF k = 0
             THEN /\ \E d \in DistChoices(Type(r)) :
                        workdir' = [workdir EXCEPT ![Type(r)].dist = d]
                  /\ ci' = [ci EXCEPT ![r] = 1]
                  /\ Goto(r, IF Type(r) = "mac" THEN "mkdirs" ELSE "pullDeb")
             ELSE /\ UNCHANGED <<workdir, ci>>
                  /\ Throw(r)
    /\ UNCHANGED <<ingested, matched, targets, pubDir, remote, debDir, remoteDeb, builder,
                   remoteAtStart, interfered, pulled, produced, remoteAfterPush>>

\* builder.start() settles (lines 358-388); once started, the script is
\* accumulated and runScript is called, all before the next await.
VmStart(r) ==
    /\ pc[r] = "vmStart"
    /\ \/ /\ Logged(r, <<Entry(Type(r), "vmStart", "-", TRUE)>>)
          /\ builder' = [builder EXCEPT ![r] =
                            appendAll(builderStart(@), WinScript(Type(r)))]
          /\ Goto(r, "runScript")
       \/ /\ Logged(r, <<Entry(Type(r), "vmStart", "-", FALSE)>>)
          /\ UNCHANGED builder
          /\ Throw(r)
    /\ UNCHANGED <<ingested, matched, targets, pubDir, remote, debDir, remoteDeb, workdir, ci,
                   remoteAtStart, interfered, pulled, produced, remoteAfterPush>>

\* builder.runScript() settles (lines 388-389); the script's xcopy leaves the
\* build output in the shared dist directory.
RunScript(r) ==
    /\ pc[r] = "runScript"
    /\ \/ /\ workdir[Type(r)].exists
          /\ Logged(r, <<Entry(Type(r), "runScript", "-", TRUE)>>)
          /\ builder' = [builder EXCEPT ![r] = runScript(@)]
          /\ \E d \in DistChoices(Type(r)) :
                workdir' = [workdir EXCEPT ![Type(r)].dist = d]
          /\ ci' = [ci EXCEPT ![r] = 1]
          /\ Goto(r, "mkdirs")
       \/ /\ Logged(r, <<Entry(Type(r), "runScript", "-", FALSE)>>)
          /\ UNCHANGED <<workdir, ci, builder>>
          /\ Throw(r)
    /\ UNCHANGED <<ingested, matched, targets, pubDir, remote, debDir, remoteDeb,
                   remoteAtStart, interfered, pulled, produced, remoteAfterPush>>

\* The two recursive mkdir calls (lines 283-284, 394-395).
Mkdirs(r) ==
    /\ pc[r] = "mkdirs"
    /\ \E k \in 0..2 :
          /\ Logged(r, Entries(Type(r), <<"mkdirInstall", "mkdirUpdate">>, k))
          /\ IF k = 0 THEN Goto(r, "match") ELSE Throw(r)
    /\ UNCHANGED <<ingested, matched, targets, pubDir, remote, debDir, remoteDeb, workdir, builder,
                   ci, remoteAtStart, interfered, pulled, produced, remoteAfterPush>>

\* getMatchingFilesInDir settles (lines 286, 294, 303, 397, 403, 409): readdir
\* may fail, and no match throws.
Match(r) ==
    /\ pc[r] = "match"
    /\ LET m == getMatchingFilesInDir(workdir[Type(r)].dist, Class(r).exp)
       IN  \/ /\ workdir[Type(r)].exists
              /\ m # <<>>
              /\ Logged(r, <<Entry(Type(r), "match", Class(r).exp, TRUE)>>)
              /\ matched' = [matched EXCEPT ![r] = m]
              /\ Goto(r, IF Type(r) = "linux" THEN "targets" ELSE "copy")
           \/ /\ Logged(r, <<Entry(Type(r), "match", Class(r).exp, FALSE)>>)
              /\ UNCHANGED matched
              /\ Throw(r)
    /\ UNCHANGED <<ingested, targets, pubDir, remote, debDir, remoteDeb, workdir, builder, ci,
                   remoteAtStart, interfered, pulled, produced, remoteAfterPush>>

\* Variant of AfterClass: the extraction ends after the first class.
AfterFirstClass(r) ==
    IF IsWin(Type(r)) THEN TryEnds(r) ELSE Goto(r, "latest")

\* After the last file of a class: the next class, or what follows the
\* extraction loops.
AfterClass(r) ==
    IF ci[r] < Len(Classes(Type(r)))
    THEN Goto(r, "match")
    ELSE IF IsWin(Type(r)) THEN TryEnds(r) ELSE Goto(r, "latest")

\* copyAndLog settles (lines 287-295, 398-413).
Copy(r) ==
    /\ pc[r] = "copy"
    /\ LET f == Head(matched[r])
           file == <<Class(r).dir, f, NewVer>>
       IN  \/ /\ workdir[Type(r)].exists
              /\ \E i \in 1..Len(workdir[Type(r)].dist) : workdir[Type(r)].dist[i] = f
              /\ Logged(r, <<Entry(Type(r), "copy", Class(r).exp, TRUE)>>)
              /\ pubDir' = WriteFile(pubDir, file[1], file[2], file[3])
              /\ produced' = [produced EXCEPT ![r] = Append(produced[r], file)]
              /\ Note(r, "local")
              /\ matched' = [matched EXCEPT ![r] = Tail(matched[r])]
              /\ IF Tail(matched[r]) = <<>>
                 THEN /\ ci' = [ci EXCEPT ![r] =
                                   IF ci[r] < Len(Classes(Type(r))) THEN ci[r] + 1 ELSE ci[r]]
                      /\ AfterClass(r)
                 ELSE /\ UNCHANGED ci
                      /\ Goto(r, "copy")
           \/ /\ Logged(r, <<Entry(Type(r), "copy", Class(r).exp, FALSE)>>)
              /\ UNCHANGED <<pubDir, produced, interfered, matched, ci>>
              /\ Throw(r)
    /\ UNCHANGED <<ingested, targets, remote, debDir, remoteDeb, workdir, builder, remoteAtStart,
                   pulled, remoteAfterPush>>

\* The version is written to update/macos/latest (lines 298-300).
Latest(r) ==
    /\ pc[r] = "latest"
    /\ \/ /\ Logged(r, <<Entry(Type(r), "writeLatest", "-", TRUE)>>)
          /\ pubDir' = WriteFile(pubDir, "update/macos", latest, NewVer)
          /\ produced' = [produced EXCEPT
                             ![r] = Append(produced[r], <<"update/macos", latest, NewVer>>)]
          /\ Note(r, "local")
          /\ Goto(r, "rimrafEnd")
       \/ /\ Logged(r, <<Entry(Type(r), "writeLatest", "-", FALSE)>>)
          /\ UNCHANGED <<pubDir, produced, interfered>>
          /\ Throw(r)
    /\ UNCHANGED <<ingested, matched, targets, remote, debDir, remoteDeb, workdir, builder, ci,
                   remoteAtStart, pulled, remoteAfterPush>>

\* pullDebDatabase settles (line 302).
PullDeb(r) ==
    /\ pc[r] = "pullDeb"
    /\ \/ /\ Logged(r, <<Entry(Type(r), "pullDeb", "-", TRUE)>>)
          /\ debDir' = remoteDeb
          /\ Goto(r, "match")
       \/ /\ Logged(r, <<Entry(Type(r), "pullDeb", "-", FALSE)>>)
          /\ UNCHANGED debDir
          /\ Throw(r)
    /\ UNCHANGED <<ingested, matched, targets, pubDir, remote, remoteDeb, workdir, builder, ci,
                   remoteAtStart, interfered, pulled, produced, remoteAfterPush>>

\* After the last target of a package: the next package, or pushDebDatabase.
AfterDeb(r) ==
    Goto(r, IF Tail(matched[r]) = <<>> THEN "pushDeb" ELSE "targets")

\* addDeb, up to its first reprepro call (lines 98-100): conf/distributions
\* is read.
Targets(r) ==
    /\ pc[r] = "targets"
    /\ \/ /\ Logged(r, <<Entry(Type(r), "getRepoTargets", "-", TRUE)>>)
          /\ targets' = [targets EXCEPT ![r] = getRepoTargets(debDir.conf)]
          /\ IF getRepoTargets(debDir.conf) = <<>>
             THEN /\ matched' = [matched EXCEPT ![r] = Tail(matched[r])]
                  /\ AfterDeb(r)
             ELSE /\ UNCHANGED matched
                  /\ Goto(r, "includedeb")
       \/ /\ Logged(r, <<Entry(Type(r), "getRepoTargets", "-", FALSE)>>)
          /\ UNCHANGED <<targets, matched>>
          /\ Throw(r)
    /\ UNCHANGED <<ingested, pubDir, remote, debDir, remoteDeb, workdir, builder, ci, remoteAtStart,
                   interfered, pulled, produced, remoteAfterPush>>

\* History: reprepro includedeb was run for the package and the target at
\* hand.
Ingest(r, ok) ==
    ingested' = [ingested EXCEPT
                    ![r] = Append(@, <<Head(matched[r]), Head(targets[r]), ok>>)]

\* reprepro includedeb <target> <deb> exits (lines 101-111).
IncludeDeb(r) ==
    /\ pc[r] = "includedeb"
    /\ \/ /\ Logged(r, <<Entry(Type(r), "includedeb", "-", TRUE)>>)
          /\ Ingest(r, TRUE)
          /\ debDir' = [debDir EXCEPT
                           !.db = @ \cup {<<Head(targets[r]), Head(matched[r]), NewVer>>}]
          /\ targets' = [targets EXCEPT ![r] = Tail(targets[r])]
          /\ IF Tail(targets[r]) = <<>>
             THEN /\ matched' = [matched EXCEPT ![r] = Tail(matched[r])]
                  /\ AfterDeb(r)
             ELSE /\ UNCHANGED matched
                  /\ Goto(r, "includedeb")
       \/ /\ Logged(r, <<Entry(Type(r), "includedeb", "-", FALSE)>>)
          /\ Ingest(r, FALSE)
          /\ UNCHANGED <<debDir, targets, matched>>
          /\ Throw(r)
    /\ UNCHANGED <<pubDir, remote, remoteDeb, workdir, builder, ci, remoteAtStart,
                   interfered, pulled, produced, remoteAfterPush>>

\* pushDebDatabase settles (line 306).
PushDeb(r) ==
    /\ pc[r] = "pushDeb"
    /\ \/ /\ Logged(r, <<Entry(Type(r), "pushDeb", "-", TRUE)>>)
          /\ remoteDeb' = debDir
          /\ Note(r, "deb")
          /\ Goto(r, "rimrafEnd")
       \/ /\ Logged(r, <<Entry(Type(r), "pushDeb", "-", FALSE)>>)
          /\ UNCHANGED <<remoteDeb, interfered>>
          /\ Throw(r)
    /\ UNCHANGED <<ingested, matched, targets, pubDir, remote, debDir, workdir, builder, ci,
                   remoteAtStart, pulled, produced, remoteAfterPush>>

\* builder.stop() settles (lines 415-417).
Stop(r) ==
    /\ pc[r] = "stop"
    /\ \E ok \in BOOLEAN :
          /\ Logged(r, <<Entry(Type(r), "stop", "-", ok)>>)
          /\ builder' = [builder EXCEPT ![r] = IF ok THEN builderStop(@) ELSE @]
          /\ StopDone(r, ok)
    /\ UNCHANGED <<ingested, matched, targets, pubDir, remote, debDir, remoteDeb, workdir, ci,
                   remoteAtStart, interfered, pulled, produced, remoteAfterPush>>

\* The final rimraf of the build directory (lines 309-314, 419-424); when it
\* succeeds the build method returns and the platform loop goes on.
RimrafEnd(r) ==
    /\ pc[r] = "rimrafEnd"
    /\ \/ /\ Logged(r, <<Entry(Type(r), "rimrafEnd", "-", TRUE)>>)
          /\ workdir' = rimraf(workdir, Type(r))
          /\ LoopNext(r)
       \/ /\ Logged(r, <<Entry(Type(r), "rimrafEnd", "-", FALSE)>>)
          /\ UNCHANGED workdir
          /\ Throw(r)
    /\ UNCHANGED <<ingested, matched, targets, pubDir, remote, debDir, remoteDeb, builder, ci,
                   remoteAtStart, interfered, pulled, produced, remoteAfterPush>>

Next ==
    \E r \in Runs :
        \/ Start(r)
        \/ GetSecret(r)
        \/ Pull(r)
        \/ Prep(r)
        \/ Clone(r)
        \/ Cfg(r)
        \/ Cmds(r)
        \/ VmStart(r)
        \/ RunScript(r)
        \/ Mkdirs(r)
        \/ Match(r)
        \/ Copy(r)
        \/ Latest(r)
        \/ PullDeb(r)
        \/ Targets(r)
        \/ IncludeDeb(r)
        \/ PushDeb(r)
        \/ Stop(r)
        \/ RimrafEnd(r)
        \/ Push(r)

Spec == Init /\ [][Next]_vars

----------------------------------------------------------------------------
\* Vocabulary of the properties.

Done(r) == pc[r] = "done"

\* Between `this.building = true` and the end of the finally block.
InPipeline(r) == pc[r] \notin {"idle", "getSecret", "done"}

Idx(r) == 1..Len(log[r])
Made(r, t, e, ok) == \E i \in Idx(r) : log[r][i][1] = t /\ log[r][i][2] = e /\ log[r][i][4] = ok
FailedAt(r, i) == ~log[r][i][4]
Failed(r) == \E i \in Idx(r) : FailedAt(r, i)
\* A call of a build method failed.
PlatformFailed(r) == \E i \in Idx(r) : FailedAt(r, i) /\ log[r][i][1] # "-"
\* build(t) returned normally.
Built(r, t) == Made(r, t, "rimrafEnd", TRUE)
AllBuilt(r) == \A n \in 1..Len(TYPES) : Built(r, TYPES[n])
Succeeded(r) == Done(r) /\ Made(r, "-", "push", TRUE)
TypeIdx(t) == IF t = "-" THEN 0 ELSE CHOOSE n \in 1..Len(TYPES) : TYPES[n] = t

\* The files of seq written over tree, in order.
RECURSIVE Overlay(_, _)
Overlay(tree, seq) ==
    IF seq = <<>>
    THEN tree
    ELSE LET f == Head(seq)
         IN  Overlay({g \in tree : g[1] # f[1] \/ g[2] # f[2]} \cup {f}, Tail(seq))

FilesOf(seq) == {seq[i] : i \in 1..Len(seq)}

\* The calls that make up "the build commands" and "the extraction".
BuildCalls == {RunnerCalls[i] : i \in 1..Len(RunnerCalls)} \cup {"runScript"}
ExtractCalls == {"match", "copy"}

----------------------------------------------------------------------------
\* C1: a run of start() in which a platform build fails never invokes
\* pushArtifacts, and, no other invocation having pushed meanwhile, the remote
\* artifact tree after the run is the tree there was when the run began.
C1_NoPublishOnPlatformFailure ==
    \A r \in Runs :
        PlatformFailed(r) =>
            /\ ~Made(r, "-", "push", TRUE) /\ ~Made(r, "-", "push", FALSE)
            /\ pc[r] # "push"
            /\ (Done(r) /\ "tree" \notin interfered[r]) => remote = remoteAtStart[r].tree

\* mac was built and its artifacts copied into the local tree, linux failed,
\* the run ended and the remote tree is as it was.
C1_Witness ==
    \E r \in Runs :
        /\ Done(r)
        /\ Built(r, "mac")
        /\ \E i \in Idx(r) : FailedAt(r, i) /\ log[r][i][1] = "linux"
        /\ "tree" \notin interfered[r]
        /\ remote = remoteAtStart[r].tree
        /\ pubDir # remote

\* C2 (as claimed): a start() invoked while another is between
\* `building = true` and its finally block does nothing, so that no two
\* invocations are ever inside the pipeline together.
C2_SecondStartIsNoOp ==
    Cardinality({r \in Runs : InPipeline(r)}) <= 1

\* C3 (as claimed): when a failed run ends, neither the remote artifact tree
\* nor the remote Debian database differs from what it was when the run
\* began (no other invocation having written them).
C3_FailedRunLeavesRemoteUnchanged ==
    \A r \in Runs :
        (Done(r) /\ Failed(r) /\ interfered[r] \cap {"tree", "deb"} = {}) =>
            /\ remote = remoteAtStart[r].tree
            /\ remoteDeb = remoteAtStart[r].deb

C5_ReturnsIffSuccess ==
    \A r \in Runs :
        Done(r) =>
            /\ outcome[r] = "returned" <=> (AllBuilt(r) /\ Made(r, "-", "push", TRUE))
            /\ Failed(r) => outcome[r] = "threw"

\* C5 (amended): start() throws exactly when getSecret, pullArtifacts or
\* pushArtifacts failed; a failed platform build is caught, so start() then
\* returns normally, as it does after a successful push and when it finds the
\* guard set.
C5_ThrowsOnlyOutsideBuilds ==
    \A r \in Runs :
        Done(r) =>
            /\ outcome[r] \in {"returned", "threw"}
            /\ outcome[r] = "threw" <=>
                  \E e \in {"getSecret", "pull", "push"} : Made(r, "-", e, FALSE)
            /\ PlatformFailed(r) => outcome[r] = "returned"
            /\ (AllBuilt(r) /\ Made(r, "-", "push", TRUE)) => outcome[r] = "returned"

\* A run that returned normally although its linux build failed, and one
\* that threw because the push failed.
C5_Witness ==
    /\ \E r \in Runs :
          /\ Done(r) /\ outcome[r] = "returned"
          /\ \E i \in Idx(r) : FailedAt(r, i) /\ log[r][i][1] = "linux"
    /\ \E r \in Runs :
          Done(r) /\ outcome[r] = "threw" /\ Made(r, "-", "push", FALSE)

\* The j-th call of log l is in program order with respect to the calls
\* before it.
InOrder(l, j) ==
    LET t == l[j][1]
        e == l[j][2]
        before == 1..(j - 1)
    IN  /\ \A i \in before : l[i][2] # "push"
        /\ t # "-" =>
              /\ \E i \in before : l[i] = Entry("-", "pull", "-", TRUE)
              /\ \A i \in before : TypeIdx(l[i][1]) <= TypeIdx(t)
              /\ \A n \in 1..(TypeIdx(t) - 1) :
                    \E i \in before : l[i] = Entry(TYPES[n], "rimrafEnd", "-", TRUE)
        /\ e = "clone" =>
              \A i \in before : l[i][1] = t => l[i][2] \notin BuildCalls \cup ExtractCalls
        /\ e \in BuildCalls =>
              /\ \E i \in before : l[i] = Entry(t, "clone", "-", TRUE)
              /\ \A i \in before : l[i][1] = t => l[i][2] \notin ExtractCalls
        /\ e \in ExtractCalls =>
              \E i \in before :
                  l[i] \in {Entry(t, "yarn build", "-", TRUE), Entry(t, "runScript", "-", TRUE)}
        /\ e = "push" =>
              \A n \in 1..Len(TYPES) :
                  \E i \in before : l[i] = Entry(TYPES[n], "rimrafEnd", "-", TRUE)

\* C6: within one run the calls are made in program order: the pull has
\* succeeded before the first build call; the types are built one at a time
\* in the order of TYPES, each only after the one before returned normally;
\* in each build the clone precedes the build commands, which precede the
\* extraction; and the push comes after every type was built, and last.
\* Stated of every call at the step that makes it.
C6_ProgramOrder ==
    [][\A r \in Runs :
          \A j \in (Len(log[r]) + 1)..Len(log'[r]) :
              /\ InOrder(log'[r], j)
              /\ log'[r][j][2] = "push" => j = Len(log'[r])]_vars

\* A run that went through pull, the three builds and the push.
C6_Witness ==
    \E r \in Runs :
        /\ Succeeded(r)
        /\ AllBuilt(r)
        /\ Made(r, "win64", "copy", TRUE)
        /\ Made(r, "mac", "copy", TRUE)
        /\ Made(r, "linux", "includedeb", TRUE)

\* C7: once a call of the build of one type has failed, the run makes no call
\* for a later type and does not make the failed call again: the only call
\* that can follow is the builder.stop() of buildWin's finally block.
\* Stated of every call at the step that makes it.
C7_FailFast ==
    [][\A r \in Runs :
          \A j \in (Len(log[r]) + 1)..Len(log'[r]) : \A i \in 1..(j - 1) :
              (~log'[r][i][4] /\ log'[r][i][1] # "-") =>
                  /\ j = i + 1
                  /\ log'[r][j][1] = log'[r][i][1]
                  /\ log'[r][j][2] = "stop"
                  /\ log'[r][i][2] # "stop"]_vars

\* win64 failed at runScript and the run ended without a call for mac or
\* linux.
C7_Witness ==
    \E r \in Runs :
        /\ Done(r)
        /\ Made(r, "win64", "runScript", FALSE)
        /\ \A i \in Idx(r) : log[r][i][1] \in {"-", "win64"}

\* C8: when getSecret fails, the step that ends start() changes nothing but
\* the invocation's own completion: no tree, database, working directory or
\* remote environment is touched, the invocation has made no other call, and
\* the guard is not left set by it.
C8_SecretFailureHasNoEffect ==
    [][\A r \in Runs :
          (pc[r] = "getSecret" /\ pc'[r] = "done" /\ outcome'[r] = "threw") =>
              /\ log'[r] = <<Entry("-", "getSecret", "-", FALSE)>>
              /\ UNCHANGED <<building, pubDir, remote, debDir, remoteDeb, workdir, builder>>
              /\ building' => \E q \in Runs \ {r} : InPipeline(q)]_vars

\* An invocation ended by a failed getSecret while another is in the pipeline.
C8_Witness ==
    \E r \in Runs :
        /\ Done(r) /\ outcome[r] = "threw"
        /\ log[r] = <<Entry("-", "getSecret", "-", FALSE)>>
        /\ \E q \in Runs \ {r} : InPipeline(q) /\ building

\* C9 (as claimed): the guard is set while an invocation is in the pipeline
\* and is clear when none is.
C9_GuardHeld ==
    /\ \A r \in Runs : InPipeline(r) => building
    /\ (\A r \in Runs : ~InPipeline(r)) => ~building

\* C10: in buildWin, builder.stop() is called only after builder.start()
\* succeeded, never twice, and has been called once builder.start() succeeded
\* and buildWin is past its finally block, however the try block ended.
C10_StopExactlyOnce ==
    \A r \in Runs : \A n \in {m \in 1..Len(TYPES) : IsWin(TYPES[m])} :
        LET t == TYPES[n]
            stops == {i \in Idx(r) : log[r][i][1] = t /\ log[r][i][2] = "stop"}
            started == Made(r, t, "vmStart", TRUE)
            inTry == ti[r] = n /\ pc[r] \in {"runScript", "mkdirs", "match", "copy", "stop"}
        IN  /\ Cardinality(stops) <= 1
            /\ \A i \in stops : \E h \in 1..(i - 1) : log[r][h] = Entry(t, "vmStart", "-", TRUE)
            /\ (started /\ ~inTry) => Cardinality(stops) = 1
            /\ \A i \in stops : \A j \in Idx(r) :
                  (log[r][j][1] = t /\ log[r][j][2] = "rimrafEnd") => i < j

\* buildWin left by an empty match (RELEASES missing from dist) with the
\* remote environment stopped on the way out.
C10_Witness ==
    \E r \in Runs :
        /\ Done(r)
        /\ Made(r, "win64", "vmStart", TRUE)
        /\ \E i \in Idx(r) : log[r][i] = Entry("win64", "match", "releases", FALSE)
        /\ Made(r, "win64", "stop", TRUE)

----------------------------------------------------------------------------
\* The types whose build copies artifacts into the local tree.
TreeTypes == {"win64", "mac"}

\* A call of build(t) failed in invocation r.
BuildFailed(r, t) == \E i \in Idx(r) : FailedAt(r, i) /\ log[r][i][1] = t

HasClass(tree, c) ==
    \E f \in tree : f[1] = c.dir /\ Matches(c.exp, f[2]) /\ f[3] = NewVer

\* The artifact classes of t (by index in Classes(t)) of which a file that
\* r copied is in the local tree.
ClassesInTree(r, t) ==
    {k \in 1..Len(Classes(t)) : HasClass(FilesOf(produced[r]) \cap pubDir, Classes(t)[k])}

\* C11 (as claimed): the local tree never holds some, but not all, of the
\* artifact classes of a platform's build once that build has failed.
C11_NoPartialPlatformInTree ==
    \A r \in Runs : \A t \in TreeTypes :
        BuildFailed(r, t) =>
            ClassesInTree(r, t) \in {{}, 1..Len(Classes(t))}

\* C11 (amended): artifacts are copied into the local tree class by class,
\* in program order, as soon as each class is matched, so that after a
\* failed build the tree can hold the first classes without the later ones;
\* the invocation whose build failed never calls pushArtifacts, and a
\* successful invocation whose local tree no other invocation wrote pushes
\* every class of every platform.
C11_PartialCopyIsNeverPushed ==
    \A r \in Runs :
        /\ \A t \in TreeTypes :
              /\ "local" \notin interfered[r] =>
                    \E n \in 0..Len(Classes(t)) : ClassesInTree(r, t) = 1..n
              /\ BuildFailed(r, t) =>
                    /\ ~Made(r, "-", "push", TRUE) /\ ~Made(r, "-", "push", FALSE)
                    /\ pc[r] # "push"
        /\ (Succeeded(r) /\ "local" \notin interfered[r]) =>
              \A t \in TreeTypes : \A k \in 1..Len(Classes(t)) :
                  HasClass(remoteAfterPush[r], Classes(t)[k])

\* The mac build copied the .dmg, failed for want of a -mac.zip, and the
\* invocation ended with the .dmg in the local tree and not on the mirror.
C11_Witness ==
    \E r \in Runs :
        /\ Done(r)
        /\ Made(r, "mac", "match", FALSE)
        /\ ClassesInTree(r, "mac") = {1}
        /\ <<"install/macos", dmgNew, NewVer>> \in pubDir \ remote

----------------------------------------------------------------------------
\* The calls of the linux build that come between pullDebDatabase and
\* pushDebDatabase.
IngestCalls == {"match", "getRepoTargets", "includedeb"}

\* C12: in the linux build every reprepro includedeb comes after a successful
\* pullDebDatabase and before pushDebDatabase; pushDebDatabase is called only
\* when the pull, the .deb match and every ingestion call before it
\* succeeded; a failure of the pull, of the match or of an ingestion is the
\* last call of the invocation, which ends, and the remote database is
\* written by nothing but a successful pushDebDatabase.
\* Stated of every call at the step that makes it.
C12_IngestBetweenPullAndPush ==
    [][/\ \A r \in Runs :
             \A j \in (Len(log[r]) + 1)..Len(log'[r]) :
                 LET l == log'[r]
                     before == 1..(j - 1)
                 IN  l[j][1] = "linux" =>
                        /\ l[j][2] \in IngestCalls \cup {"pushDeb"} =>
                              /\ \E i \in before : l[i] = Entry("linux", "pullDeb", "-", TRUE)
                              /\ \A i \in before : l[i][2] # "pushDeb"
                        /\ l[j][2] = "pushDeb" =>
                              /\ \E i \in before : l[i] = Entry("linux", "match", "deb", TRUE)
                              /\ \A i \in before : l[i][1] = "linux" => l[i][4]
                        /\ (l[j][2] \in IngestCalls \cup {"pullDeb"} /\ ~l[j][4]) =>
                              /\ j = Len(l)
                              /\ pc'[r] = "done"
                              /\ remoteDeb' = remoteDeb
       /\ remoteDeb' # remoteDeb =>
             \E r \in Runs :
                 /\ Len(log'[r]) = Len(log[r]) + 1
                 /\ log'[r][Len(log'[r])] = Entry("linux", "pushDeb", "-", TRUE)]_vars

\* One invocation ingested the package for every target and pushed the
\* database; another ingested it for one target, failed on the next and
\* ended without a push.
C12_Witness ==
    \E r, q \in Runs :
        /\ Made(r, "linux", "includedeb", TRUE)
        /\ Made(r, "linux", "pushDeb", TRUE)
        /\ Done(q)
        /\ Made(q, "linux", "includedeb", TRUE)
        /\ Made(q, "linux", "includedeb", FALSE)
        /\ ~Made(q, "linux", "pushDeb", TRUE) /\ ~Made(q, "linux", "pushDeb", FALSE)

----------------------------------------------------------------------------
\* One invocation inside build(type), for every type build() is written for
\* and over a range of build outputs, manifests and reprepro configurations.

\* Longest listing of dist considered.
MaxListing == 3

Names == {dmgNew, zipNew, exeNew, nupkgNew, RELEASES, debNew, debTwo, txtFile}

\* readdir: the names of a directory, each once, in any order.
Listings ==
    UNION { {l \in [1..n -> Names] : \A i, j \in 1..n : l[i] = l[j] => i = j}
            : n \in 0..MaxListing }

\* conf/distributions with two Codename lines, with one, and with none.
Confs ==
    { ConfDistributions,
      << originLine, Codename \o ColonSpace \o dev >>,
      << originLine >> }

\* The calls invocation 1 has made when it is suspended at label l of the
\* build of type t, its first.
LogUpTo(t, l) ==
    LET started == <<Entry("-", "getSecret", "-", TRUE), Entry("-", "pull", "-", TRUE)>>
        cloned == Entries(t, <<"mkdirBuilds", "rimraf", "clone">>, 0)
        built == Entries(t, CfgCalls(t), 0) \o
                 (IF IsWin(t)
                  THEN Entries(t, <<"vmStart", "runScript", "mkdirInstall", "mkdirUpdate">>, 0)
                  ELSE Entries(t, RunnerCalls, 0) \o
                       (IF t = "mac"
                        THEN Entries(t, <<"mkdirInstall", "mkdirUpdate">>, 0)
                        ELSE Entries(t, <<"pullDeb">>, 0)))
    IN  CASE l = "prep" -> started
          [] l = "cfg" -> started \o cloned
          [] OTHER -> started \o cloned \o built

\* Invocation 1 is suspended at label l of the build of type BuildTypes[i],
\* with working directory wd, local tree `tree` as pulled, reprepro
\* directory repo and WindowsBuilder b; no other invocation was made.
InBuild(l, i, wd, tree, repo, b) ==
    /\ building = TRUE
    /\ pc = [r \in Runs |-> IF r = 1 THEN l ELSE "idle"]
    /\ ti = [r \in Runs |-> IF r = 1 THEN i ELSE 0]
    /\ ci = [r \in Runs |-> IF r = 1 /\ l = "match" THEN 1 ELSE 0]
    /\ pending = [r \in Runs |-> FALSE]
    /\ matched = [r \in Runs |-> <<>>]
    /\ targets = [r \in Runs |-> <<>>]
    /\ outcome = [r \in Runs |-> "pending"]
    /\ log = [r \in Runs |-> IF r = 1 THEN LogUpTo(BuildTypes[i], l) ELSE <<>>]
    /\ pubDir = tree
    /\ remote = tree
    /\ debDir = repo
    /\ remoteDeb = repo
    /\ workdir = [t \in {BuildTypes[n] : n \in 1..Len(BuildTypes)} |->
                     IF t = BuildTypes[i] THEN wd ELSE NoDir]
    /\ builder = [r \in Runs |-> IF r = 1 THEN b ELSE NewWindowsBuilder]
    /\ remoteAtStart = [r \in Runs |-> [tree |-> IF r = 1 THEN tree ELSE {},
                                        deb |-> IF r = 1 THEN repo ELSE EmptyRepo]]
    /\ interfered = [r \in Runs |-> {}]
    /\ pulled = [r \in Runs |-> IF r = 1 THEN tree ELSE {}]
    /\ produced = [r \in Runs |-> <<>>]
    /\ remoteAfterPush = [r \in Runs |-> {}]
    /\ ingested = [r \in Runs |-> <<>>]

\* The build commands have left a listing in dist and the extraction begins
\* (lines 286, 303, 397).
InitExtract ==
    \E i \in 1..Len(BuildTypes), d \in Listings, c \in Confs, tree \in {EmptyTree, OldTree} :
        InBuild("match", i,
                [ClonedDir(Manifest) EXCEPT
                    !.cfg = writeElectronBuilderConfigFile(BuildTypes[i], Manifest),
                    !.dist = d],
                tree, [conf |-> c, db |-> {}],
                IF IsWin(BuildTypes[i])
                THEN runScript(appendAll(builderStart(NewWindowsBuilder),
                                         WinScript(BuildTypes[i])))
                ELSE NewWindowsBuilder)

NextExtract ==
    \/ Match(1)
    \/ Copy(1)
    \/ Latest(1)
    \/ Targets(1)
    \/ IncludeDeb(1)
    \/ PushDeb(1)
    \/ Stop(1)

SpecExtract == InitExtract /\ [][NextExtract]_vars

----------------------------------------------------------------------------
\* The Codename values each configuration of Confs declares, in file order.
Declared(conf) ==
    CASE conf = ConfDistributions -> <<sid, dev>>
      [] Len(conf) = 2 -> <<dev>>
      [] OTHER -> <<>>

\* The .deb packages of a listing, in listing order.
Packages(listing) == SelectSeq(listing, LAMBDA f : f \in {debNew, debTwo})

\* Every (package, target) pair, packages in listing order and, for each
\* package, targets in file order.
Pairs(listing, conf) ==
    LET n == Len(Packages(listing))
        m == Len(Declared(conf))
    IN  [k \in 1..(n * m) |->
            <<Packages(listing)[((k - 1) \div m) + 1], Declared(conf)[((k - 1) % m) + 1]>>]

\* C13: the reprepro includedeb calls of a linux build are made for the
\* (package, target) pairs in order, one call per pair: at any moment the
\* calls made are the first pairs, every call but the last one made
\* succeeded, and nothing follows a failed call; once the ingestion is over
\* there has been exactly one call for each of the N x M pairs.
C13_OneIngestionPerPair ==
    LET done == ingested[1]
        all == Pairs(workdir["linux"].dist, debDir.conf)
    IN  Type(1) = "linux" =>
           /\ Len(done) <= Len(all)
           /\ \A k \in 1..Len(done) :
                 /\ <<done[k][1], done[k][2]>> = all[k]
                 /\ k < Len(done) => done[k][3]
           /\ (Len(done) > 0 /\ ~done[Len(done)][3]) => pc[1] = "done"
           /\ (pc[1] = "pushDeb" \/ Made(1, "linux", "pushDeb", TRUE)) =>
                 /\ Len(done) = Len(all)
                 /\ \A k \in 1..Len(done) : done[k][3]

\* Two packages were ingested for two targets each, in order, and the
\* database was pushed.
C13_Witness ==
    /\ Made(1, "linux", "pushDeb", TRUE)
    /\ workdir["linux"].dist = <<debTwo, txtFile, debNew>>
    /\ ingested[1] = << <<debTwo, sid, TRUE>>, <<debTwo, dev, TRUE>>,
                        <<debNew, sid, TRUE>>, <<debNew, dev, TRUE>> >>

----------------------------------------------------------------------------
\* The positions of a listing whose entry matches the expression.
Hits(listing, exp) == {i \in 1..Len(listing) : Matches(exp, listing[i])}

\* m holds the entries of the listing at the positions of `at`, in listing
\* order: the k-th entry of m is the entry at the k-th smallest position.
IsSelection(m, listing, at) ==
    /\ Len(m) = Cardinality(at)
    /\ \A k \in 1..Len(m) :
          \E i \in at :
              /\ Cardinality({j \in at : j < i}) = k - 1
              /\ m[k] = listing[i]

\* The extraction of the build came to its end.
Extracted == pc[1] \in {"latest", "pushDeb"} \/ (pc[1] = "stop" /\ ~pending[1])

\* C14: a call of getMatchingFilesInDir that returns gives exactly the
\* entries of the listing that match, in listing order, and at least one; a
\* call on a listing without a match throws, which ends the build there,
\* nothing having been copied for the class; so the extraction of a platform
\* comes to its end only when every class had a match.
C14_MatchesOrThrows ==
    [][LET listing == workdir[Type(1)].dist
           at == Hits(listing, Class(1).exp)
       IN  /\ (pc[1] = "match" /\ pc'[1] # "match") =>
                 /\ pc'[1] \in {"copy", "targets"} =>
                       /\ at # {}
                       /\ IsSelection(matched'[1], listing, at)
                 /\ at = {} =>
                       /\ log'[1] = Append(log[1], Entry(Type(1), "match", Class(1).exp, FALSE))
                       /\ pc'[1] \in {"stop", "done"}
                       /\ pc'[1] = "stop" => pending'[1]
                       /\ UNCHANGED <<pubDir, debDir, matched>>
           /\ Extracted' =>
                 \A k \in 1..Len(Classes(Type(1))) :
                     Hits(listing, Classes(Type(1))[k].exp) # {}]_vars

\* A listing with two packages and another file gave the two packages, in
\* listing order.
C14_Witness ==
    /\ pc[1] = "targets"
    /\ workdir["linux"].dist = <<debTwo, txtFile, debNew>>
    /\ matched[1] = <<debTwo, debNew>>

----------------------------------------------------------------------------
\* The configuration file, over a range of manifests.

\* What the manifest may declare under build.deb and build.extraMetadata,
\* and as its productName; "undefined": the key is absent.
DebSections ==
    { [fpm |-> <<"--verbose">>],
      [depends |-> <<"libgtk-3-0">>],
      [depends |-> <<"libgtk-3-0">>, fpm |-> <<"--verbose">>] }

ExtraMetadataSections ==
    { [name |-> "element-desktop"],
      [name |-> "element-desktop", productName |-> "Element Nightly"] }

ProductNames == {"Riot", "Element Nightly", "undefined"}

Optional(key, section) ==
    {EmptyObject} \cup {[k \in {key} |-> v] : v \in section}

Manifests ==
    { ObjectAssign(
          IF n = "undefined" THEN EmptyObject ELSE [productName |-> n],
          [build |-> ObjectAssign([appId |-> "im.riot.app"], ObjectAssign(d, e))])
      : n \in ProductNames,
        d \in Optional("deb", DebSections),
        e \in Optional("extraMetadata", ExtraMetadataSections) }

\* The repository was cloned and package.json is about to be read
\* (lines 258, 354).
InitCfg ==
    \E i \in 1..Len(BuildTypes), pkg \in Manifests :
        InBuild("cfg", i, ClonedDir(pkg), OldTree, EmptyRepo, NewWindowsBuilder)

NextCfg == Cfg(1)

SpecCfg == InitCfg /\ [][NextCfg]_vars

\* electron-builder.json has been written.
CfgWritten == Made(1, Type(1), "writeCfg", TRUE)

\* C15 (as claimed): the configuration written is the manifest's build
\* section except at extraMetadata.productName and deb.fpm: every other key
\* of the build section, and every other key of its deb and extraMetadata
\* objects, is there with the value the manifest gives it.
C15_OnlyTwoPathsDiffer ==
    LET build == workdir[Type(1)].pkg.build
        cfg == workdir[Type(1)].cfg
    IN  CfgWritten =>
           /\ \A k \in DOMAIN build \ {"deb", "extraMetadata"} :
                 k \in DOMAIN cfg /\ cfg[k] = build[k]
           /\ "deb" \in DOMAIN build =>
                 \A k \in DOMAIN build.deb \ {"fpm"} :
                     k \in DOMAIN cfg.deb /\ cfg.deb[k] = build.deb[k]
           /\ "extraMetadata" \in DOMAIN build =>
                 \A k \in DOMAIN build.extraMetadata \ {"productName"} :
                     k \in DOMAIN cfg.extraMetadata
                         /\ cfg.extraMetadata[k] = build.extraMetadata[k]

\* C16: the configuration written for linux has extraMetadata.productName
\* 'Element' whatever the manifest declares; the one written for win64,
\* win32 or mac has the manifest's productName, and none when the manifest
\* declares none.
C16_ProductNameByType ==
    LET pkg == workdir[Type(1)].pkg
        cfg == workdir[Type(1)].cfg
    IN  CfgWritten =>
           /\ "extraMetadata" \in DOMAIN cfg
           /\ Type(1) = "linux" =>
                 cfg.extraMetadata = [productName |-> "Element"]
           /\ Type(1) \in {"win64", "win32", "mac"} =>
                 IF "productName" \in DOMAIN pkg
                 THEN cfg.extraMetadata = [productName |-> pkg.productName]
                 ELSE cfg.extraMetadata = EmptyObject

\* The configuration was written for linux from a manifest called
\* 'Element Nightly'.
C16_Witness ==
    /\ CfgWritten
    /\ Type(1) = "linux"
    /\ Get(workdir["linux"].pkg, "productName") = "Element Nightly"
    /\ workdir["linux"].cfg.extraMetadata.productName = "Element"

----------------------------------------------------------------------------
\* The calls of a build that come before its clone, and the final removal.
RemovalCalls == {"mkdirBuilds", "rimraf", "rimrafEnd"}

\* C17: every build removes its working directory right before it clones:
\* the clone is the call that follows the successful removal, and the
\* directory does not exist when the clone is started; the directory does
\* not exist when a build returns normally; and when a call of a mac or
\* linux build fails once the clone was started, the invocation ends there
\* and the step removes no working directory.
\* Stated of every call at the step that makes it.
C17_WorkdirLifecycle ==
    [][\A r \in Runs :
          \A j \in (Len(log[r]) + 1)..Len(log'[r]) :
              LET l == log'[r]
                  t == l[j][1]
              IN  /\ l[j] = Entry(t, "rimraf", "-", TRUE) =>
                        /\ pc'[r] = "clone"
                        /\ ~workdir'[t].exists
                  /\ l[j][2] = "clone" =>
                        /\ j > 1
                        /\ l[j - 1] = Entry(t, "rimraf", "-", TRUE)
                        /\ l[j][4] => ~workdir[t].exists
                  /\ l[j] = Entry(t, "rimrafEnd", "-", TRUE) =>
                        ~workdir'[t].exists
                  /\ (t \in {"mac", "linux"} /\ ~l[j][4] /\ l[j][2] \notin RemovalCalls) =>
                        /\ j = Len(l)
                        /\ pc'[r] = "done"
                        /\ \A u \in DOMAIN workdir :
                              workdir'[u].exists = workdir[u].exists]_vars

\* The mac build of an invocation failed at its last build command and the
\* invocation ended with the working directory, and the configuration file
\* in it, in place; its win64 directory is gone.
C17_Witness ==
    \E r \in Runs :
        /\ Done(r)
        /\ Made(r, "mac", "yarn build", FALSE)
        /\ Built(r, "win64")
        /\ workdir["mac"].exists
        /\ workdir["mac"].cfg # EmptyObject
        /\ ~workdir["win64"].exists

----------------------------------------------------------------------------
\* The script of a win64 build, as the source appends it.
Win64Script ==
    << "rd repoDir", "git clone", "cd repoDir", "copy electron-builder.json",
       "call yarn install", "call yarn run hak check", "call yarn run build:native",
       "call yarn run fetch", "call yarn build --x64", "xcopy dist", "cd ..",
       "rd repoDir" >>

\* The calls of buildWin that come after runScript, stop apart.
WinExtractCalls == {"mkdirInstall", "mkdirUpdate", "match", "copy"}

\* C18: in buildWin the script is appended to only at the step at which
\* builder.start() succeeded, where it becomes the twelve lines in program
\* order with nothing run on the VM; runScript is called once, right after
\* that; the VM runs something only when runScript succeeds, and then the
\* whole script; and the extraction calls are made only after runScript
\* succeeded.
\* Stated of every step.
C18_ScriptBeforeSingleRun ==
    [][\A r \in Runs :
          /\ builder'[r].script # builder[r].script =>
                /\ log'[r] = Append(log[r], Entry("win64", "vmStart", "-", TRUE))
                /\ builder[r].script = <<>>
                /\ builder'[r].script = Win64Script
                /\ builder'[r].ran = <<>>
                /\ pc'[r] = "runScript"
          /\ builder'[r].ran # builder[r].ran =>
                /\ log'[r] = Append(log[r], Entry("win64", "runScript", "-", TRUE))
                /\ builder'[r].ran = Win64Script
          /\ \A j \in (Len(log[r]) + 1)..Len(log'[r]) :
                LET l == log'[r]
                IN  /\ l[j][2] = "runScript" =>
                          /\ j > 1
                          /\ l[j - 1] = Entry(l[j][1], "vmStart", "-", TRUE)
                          /\ builder[r].script = Win64Script
                    /\ (IsWin(l[j][1]) /\ l[j][2] \in WinExtractCalls) =>
                          \E i \in 1..(j - 1) : l[i] = Entry(l[j][1], "runScript", "-", TRUE)]_vars

\* The VM was started, ran the whole script and was stopped, and the
\* installer was copied.
C18_Witness ==
    \E r \in Runs :
        /\ Made(r, "win64", "runScript", TRUE)
        /\ Made(r, "win64", "copy", TRUE)
        /\ builder[r] = [up |-> FALSE, script |-> Win64Script, ran |-> Win64Script]

----------------------------------------------------------------------------
\* Every external call an invocation awaits completes at some time.

\* The call invocation r awaits settles.
Settle(r) ==
    \/ GetSecret(r) \/ Pull(r) \/ Prep(r) \/ Clone(r) \/ Cfg(r) \/ Cmds(r)
    \/ VmStart(r) \/ RunScript(r) \/ Mkdirs(r) \/ Match(r) \/ Copy(r)
    \/ Latest(r) \/ PullDeb(r) \/ Targets(r) \/ IncludeDeb(r) \/ PushDeb(r)
    \/ Stop(r) \/ RimrafEnd(r) \/ Push(r)

FairSpec == Spec /\ \A r \in Runs : WF_vars(Settle(r))

\* No invocation is under way.
Idle == \A r \in Runs : pc[r] \in {"idle", "done"}

\* Lemma: when every awaited call completes at some time, every invocation
\* of start() ends (from some moment on none is under way), and whenever
\* none is under way the guard is clear.
EveryStartEnds ==
    /\ <>[]Idle
    /\ [](Idle => ~building)

\* C19 (as claimed): when every awaited call completes at some time, every
\* invocation of start() ends and leaves the guard clear; an invocation moves
\* on only by the completion of the call it awaits (there is no timeout), and
\* for as long as it is held in the pipeline the guard stays set.
C19_EndsOrStaysGuarded ==
    /\ <>[]Idle
    /\ [](Idle => ~building)
    /\ [][\A r \in Runs :
             (pc[r] # "idle" /\ pc'[r] # pc[r]) => Len(log'[r]) > Len(log[r])]_vars
    /\ [](\A r \in Runs : InPipeline(r) => building)

----------------------------------------------------------------------------
\* One invocation from its call of build(type), for every type build() is
\* written for, over local trees that hold files of every platform.

\* A tree with files of an earlier release in the directories of every
\* platform.
FullTree ==
    OldTree \cup { <<"install/win32/x64", exeNew, OldVer>>,
                   <<"install/win32/ia32", exeNew, OldVer>>,
                   <<"update/win32/ia32", nupkgOld, OldVer>>,
                   <<"update/win32/ia32", RELEASES, OldVer>>,
                   <<"update/macos", zipNew, OldVer>> }

\* build(type) is called (lines 190-193).
InitBuild ==
    \E i \in 1..Len(BuildTypes), tree \in {EmptyTree, OldTree, FullTree} :
        InBuild("prep", i, NoDir, tree, EmptyRepo, NewWindowsBuilder)

NextBuild ==
    \/ Prep(1) \/ Clone(1) \/ Cfg(1) \/ Cmds(1) \/ VmStart(1) \/ RunScript(1)
    \/ Mkdirs(1) \/ Match(1) \/ Copy(1) \/ Latest(1) \/ PullDeb(1) \/ Targets(1)
    \/ IncludeDeb(1) \/ PushDeb(1) \/ Stop(1) \/ RimrafEnd(1)

SpecBuild == InitBuild /\ [][NextBuild]_vars

\* The directories of the tree that belong to a platform.
OwnDirs(t) ==
    CASE t = "mac"   -> {"install/macos", "update/macos"}
      [] t = "win64" -> {"install/win32/x64", "update/win32/x64"}
      [] t = "win32" -> {"install/win32/ia32", "update/win32/ia32"}
      [] OTHER       -> {}

\* C20: a step of the build of a platform adds, replaces or removes files of
\* the local tree only in that platform's own directories (mac: install/macos
\* and update/macos; win64: install/win32/x64 and update/win32/x64; win32:
\* install/win32/ia32 and update/win32/ia32; linux: none), so that the files
\* of every other platform stay as they are.
C20_BuildWritesOwnDirsOnly ==
    [][\A f \in (pubDir \ pubDir') \cup (pubDir' \ pubDir) :
          f[1] \in OwnDirs(Type(1))]_vars

\* The win32 build has copied its installer into install/win32/ia32 over the
\* one of the earlier release, and every file of the other platforms is as
\* pulled.
C20_Witness ==
    /\ Type(1) = "win32"
    /\ <<"install/win32/ia32", exeNew, NewVer>> \in pubDir
    /\ <<"install/win32/ia32", exeNew, OldVer>> \notin pubDir
    /\ {f \in FullTree : f[1] \notin OwnDirs("win32")} \subseteq pubDir
====
